---- MODULE Spec2Model ----
(***************************************************************************)
(* Chunked text-to-speech conversion pipeline of web-to-audiobook:         *)
(* the retrying HTTP client (app/services/http_client.py, both class       *)
(* definitions found in that file), the text splitter, progress tracker    *)
(* and audio concatenation of TTSService (app/services/tts/base.py), and   *)
(* the two adapters OpenAITTSService (asyncio.gather fan-out) and          *)
(* LocalTTSService (sequential loop).                                      *)
(*                                                                         *)
(* Python Optional values are modelled as sequences of length 0 or 1:      *)
(* None is <<>> and a value x is <<x>>.  Text is a sequence of one         *)
(* character strings, bytes are a sequence of integers.                    *)
(***************************************************************************)
EXTENDS Integers, Sequences, FiniteSets, TLC

VARIABLES
    caller,        \* who drives the run: "OpenAITTSService", "LocalTTSService", "direct" (a caller of HttpClient.request such as JinaContentExtractor) or "split_text" (a caller of TTSService.split_text)
    variant,       \* which HttpClient definition is in force: "loop" or "recursive"
    max_retries,   \* HttpClient.max_retries
    aiohttp,       \* AIOHTTP_AVAILABLE of openai_tts.py
    request,       \* the TTSRequest: text, config.provider, config.chunk_size, config.max_retries, config.timeout
    current_pos,   \* split_text: the local current_pos of the while loop
    text_chunks,   \* split_text: the local chunks list, and what the call returned
    deadline,      \* None, or the chunks whose process_chunk was suspended when config.timeout seconds had gone by since the conversion began
    phase,         \* position of the driving coroutine
    chunks,        \* the TTSChunk list of the conversion
    progress,      \* the TTSProgress of the conversion
    task,          \* per chunk: position of its process_chunk coroutine
    calls,         \* per logical HttpClient.request call: pc, retry_count, attempts, result
    done_order,    \* chunk indexes in the order their process_chunk returned
    backend_log,   \* outcomes the backend produced for a direct call, in order
    response       \* what convert_text_to_speech returned

vars == <<caller, variant, max_retries, aiohttp, request, current_pos,
          text_chunks, deadline, phase, chunks, progress, task, calls,
          done_order, backend_log, response>>

----------------------------------------------------------------------------
(* Bounds of the model *)

\* largest max_retries given to an HttpClient that is called directly
MaxRetries == 3

\* largest max_retries given to the HttpClient injected into OpenAITTSService
ConvMaxRetries == 1

----------------------------------------------------------------------------
(* Optional values *)

None == <<>>

Some(x) == <<x>>

\* Python truthiness of an Optional[bytes]: None and b"" are falsy
TruthyBytes(o) == o # None /\ Len(o[1]) > 0

\* Python truthiness of an Optional[str]: None and "" are falsy
TruthyStr(o) == o # None /\ o[1] # ""

Min(a, b) == IF a < b THEN a ELSE b

MaxOf(S) == CHOOSE x \in S : \A y \in S : y <= x

----------------------------------------------------------------------------
(* Outcomes of one HTTP attempt (httpx.AsyncClient.request) *)

\* status codes the backend answers with
Statuses == {200, 400, 429, 500, 503}

\* audio bodies the speech backend answers with on 200
AudioBodies == {<<>>, <<1>>, <<2>>}

ResponseOutcomes ==
    {[kind |-> "response", status |-> 200, content |-> b, message |-> None] :
        b \in AudioBodies}
    \cup
    {[kind |-> "response", status |-> s, content |-> <<>>, message |-> m] :
        s \in Statuses \ {200}, m \in {None, Some("Invalid request")}}

\* httpx.RequestError (connection failure, timeout); str(e) may be empty
RequestErrorOutcomes ==
    {[kind |-> "RequestError", status |-> 0, content |-> <<>>, message |-> Some(m)] :
        m \in {"", "connect failed"}}

\* any other exception raised inside the attempt
ExceptionOutcomes ==
    {[kind |-> "Exception", status |-> 0, content |-> <<>>, message |-> Some("unexpected")]}

Outcomes == ResponseOutcomes \cup RequestErrorOutcomes \cup ExceptionOutcomes

\* a server error status outside the default retry codes, answered to a
\* direct call
NotImplementedOutcome ==
    [kind |-> "response", status |-> 501, content |-> <<>>, message |-> None]

\* the outcomes an attempt made for svc can have
OutcomesOf(svc) ==
    IF svc = "direct" THEN Outcomes \cup {NotImplementedOutcome} ELSE Outcomes

\* what the backend log records of an outcome
LogCode(o) == IF o.kind = "response" THEN o.status
              ELSE IF o.kind = "RequestError" THEN 0 ELSE -1

----------------------------------------------------------------------------
(* HttpClient.request *)

\* mutated retry codes: 400 is retried as well
DefaultRetryCodesAnd400 == {400, 429, 500, 502, 503, 504}

\* retry_codes default, also passed explicitly by OpenAITTSService
DefaultRetryCodes == {429, 500, 502, 503, 504}

\* retry_delay of an HttpClient built without one, in seconds
DefaultRetryDelay == 1

\* retry_delay values of the HttpClient that is called directly
RetryDelays == {DefaultRetryDelay, 3}

\* a call before its first attempt; retry_delay is that of the client that
\* serves it, delays are the waits made so far, in seconds
NewCall == [pc |-> "idle", retry_count |-> 0, attempts |-> 0, result |-> None,
            retry_delay |-> DefaultRetryDelay, delays |-> <<>>]

\* client.request(...) is awaited: one more HTTP attempt is on the wire
IssueAttempt(c) == [c EXCEPT !.pc = "inflight", !.attempts = @ + 1]

\* the value handed back to the caller; tracked is the retry_count attribute
\* set on it (None when the attribute is absent)
Returned(c, o, tracked) ==
    [c EXCEPT !.pc = "returned",
              !.result = Some([kind |-> o.kind, status |-> o.status,
                               content |-> o.content, message |-> o.message,
                               retry_count |-> tracked])]

\* loop variant, mutated: gives up one retry early
LoopExhaustedEarly(rc) == rc >= max_retries

\* loop variant: retry_count > self.max_retries after the increment
LoopExhausted(rc) == rc > max_retries

\* mutated delay: the same wait before every retry
DelayFixed(retry_delay, retry_count) == retry_delay

\* delay = self.retry_delay * (2 ** (retry_count - 1))
Delay(retry_delay, retry_count) == retry_delay * 2 ^ (retry_count - 1)

\* loop variant: time.sleep(delay) is entered after the increment of retry_count
Sleep(c) ==
    [c EXCEPT !.retry_count = @ + 1, !.pc = "backoff",
              !.delays = Append(@, Delay(c.retry_delay, c.retry_count + 1))]

\* loop variant: the body of one iteration after the attempt finished with o
LoopOnOutcome(c, o) ==
    IF o.kind = "response" THEN
        IF o.status \in DefaultRetryCodes THEN
            IF LoopExhausted(c.retry_count + 1)
            THEN Returned([c EXCEPT !.retry_count = @ + 1], o, None)
            ELSE Sleep(c)
        ELSE Returned(c, o, None)
    ELSE IF o.kind = "RequestError" THEN
        IF LoopExhausted(c.retry_count + 1)
        THEN Returned([c EXCEPT !.retry_count = @ + 1], o, None)
        ELSE Sleep(c)
    ELSE \* not caught by request: propagates to the caller
        [c EXCEPT !.pc = "raised",
                  !.result = Some([kind |-> o.kind, status |-> o.status,
                                   content |-> o.content, message |-> o.message,
                                   retry_count |-> None])]

\* recursive variant, mutated: retries once more than max_retries allows
CanRetryOffByOne(rc) == rc <= max_retries

\* recursive variant: retry_count < self.max_retries
CanRetry(rc) == rc < max_retries

\* recursive variant, mutated: the value handed back carries the number of
\* attempts instead of the number of retries
RecursiveOnOutcomeCountsAttempts(c, o) ==
    IF o.kind = "response" THEN
        IF o.status >= 500 /\ CanRetry(c.retry_count)
        THEN IssueAttempt([c EXCEPT !.retry_count = @ + 1])
        ELSE Returned(c, o, Some(c.attempts))
    ELSE IF o.kind = "RequestError" THEN
        IF CanRetry(c.retry_count)
        THEN IssueAttempt([c EXCEPT !.retry_count = @ + 1])
        ELSE Returned(c, o, Some(c.attempts))
    ELSE Returned(c, o, Some(c.attempts))

\* recursive variant: one invocation of request after the attempt finished with o
RecursiveOnOutcome(c, o) ==
    IF o.kind = "response" THEN
        IF o.status >= 500 /\ CanRetry(c.retry_count)
        THEN IssueAttempt([c EXCEPT !.retry_count = @ + 1])
        ELSE Returned(c, o, Some(c.retry_count))
    ELSE IF o.kind = "RequestError" THEN
        IF CanRetry(c.retry_count)
        THEN IssueAttempt([c EXCEPT !.retry_count = @ + 1])
        ELSE Returned(c, o, Some(c.retry_count))
    ELSE Returned(c, o, Some(c.retry_count))

OnOutcome(c, o) == IF variant = "loop" THEN LoopOnOutcome(c, o)
                   ELSE RecursiveOnOutcome(c, o)

\* loop variant: while retry_count <= self.max_retries
LoopCondition(rc) == rc <= max_retries

\* control reaches the top of request: the loop variant tests its while
\* condition and falls through to the final return when it fails (then the
\* loop body never ran and last_exception is None); the recursive variant
\* has no test before its attempt
EnterRequest(c) ==
    IF variant = "loop" /\ ~LoopCondition(c.retry_count)
    THEN Returned(c, [kind |-> "Exception", status |-> 0, content |-> <<>>,
                      message |-> Some("Unknown error occurred")], None)
    ELSE IssueAttempt(c)

\* time.sleep(delay) in a coroutine holds the event loop thread: while a call
\* sleeps no other coroutine of the process is resumed
LoopBlocked == \E i \in DOMAIN calls : calls[i].pc = "backoff"

----------------------------------------------------------------------------
(* TTSService.split_text *)

\* characters str.strip() removes
Whitespace == {" ", "\n"}

\* str.strip()
Strip(s) ==
    LET keep == {i \in 1..Len(s) : s[i] \notin Whitespace}
    IN  IF keep = {} THEN <<>>
        ELSE SubSeq(s, CHOOSE i \in keep : \A j \in keep : i <= j, MaxOf(keep))

\* text.rfind(sub, start, end) with 0-based positions; -1 when absent
Rfind(text, sub, start, end) ==
    LET found == {i \in start..(end - Len(sub)) :
                      SubSeq(text, i + 1, i + Len(sub)) = sub}
    IN  IF found = {} THEN -1 ELSE MaxOf(found)

\* mutated window: one character more than chunk_size
WindowEndOneMore(text, pos, chunk_size) == Min(pos + chunk_size + 1, Len(text))

\* end_pos = min(current_pos + chunk_size, text_length)
WindowEnd(text, pos, chunk_size) == Min(pos + chunk_size, Len(text))

\* mutated test: a delimiter at the first position of the window is a break point
IsBreakOrAtStart(index, pos) == index >= pos

\* if sentence_end > current_pos: (and the same test for the other delimiters)
IsBreak(index, pos) == index > pos

\* end_pos of the chunk that starts at pos
EndPos(text, pos, chunk_size) ==
    LET end_pos      == WindowEnd(text, pos, chunk_size)
        sentence_end == MaxOf({Rfind(text, <<".", " ">>, pos, end_pos),
                               Rfind(text, <<"!", " ">>, pos, end_pos),
                               Rfind(text, <<"?", " ">>, pos, end_pos)})
        para_break   == Rfind(text, <<"\n", "\n">>, pos, end_pos)
        line_break   == Rfind(text, <<"\n">>, pos, end_pos)
        space        == Rfind(text, <<" ">>, pos, end_pos)
    IN  IF end_pos < Len(text) THEN
            IF IsBreak(sentence_end, pos) THEN sentence_end + 2
            ELSE IF IsBreak(para_break, pos) THEN para_break + 2
            ELSE IF IsBreak(line_break, pos) THEN line_break + 1
            ELSE IF IsBreak(space, pos) THEN space + 1
            ELSE end_pos
        ELSE end_pos

\* mutated slice: the character before end_pos is left out of the chunk
ChunkTextDropsLast(text, pos, end_pos) == Strip(SubSeq(text, pos + 1, end_pos - 1))

\* text[current_pos:end_pos].strip()
ChunkText(text, pos, end_pos) == Strip(SubSeq(text, pos + 1, end_pos))

RECURSIVE SplitLoop(_, _, _, _)
\* the while loop of split_text, from current_pos = pos with chunks = acc
SplitLoop(text, chunk_size, pos, acc) ==
    IF pos < Len(text) THEN
        LET end_pos == EndPos(text, pos, chunk_size)
        IN  SplitLoop(text, chunk_size, end_pos,
                      Append(acc, ChunkText(text, pos, end_pos)))
    ELSE acc

\* mutated test: a text as long as chunk_size goes through the loop
FitsOneChunkStrict(text, chunk_size) == Len(text) < chunk_size

\* if len(text) <= chunk_size: return [text]
FitsOneChunk(text, chunk_size) == Len(text) <= chunk_size

split_text(text, chunk_size) ==
    IF FitsOneChunk(text, chunk_size) THEN <<text>>
    ELSE SplitLoop(text, chunk_size, 0, <<>>)

----------------------------------------------------------------------------
(* TTSChunk, TTSProgress, TTSService helpers *)

\* [TTSChunk(id=i, text=text) for i, text in enumerate(text_chunks)]
MakeChunks(texts) ==
    [i \in 1..Len(texts) |->
        [id |-> i - 1, text |-> texts[i], audio_data |-> None,
         processed |-> FALSE, error |-> None]]

create_progress_tracker(total_chunks) ==
    [total_chunks |-> total_chunks, processed_chunks |-> 0, failed_chunks |-> 0]

update_progress(p, c) ==
    [p EXCEPT !.processed_chunks = IF c.processed THEN @ + 1 ELSE @,
              !.failed_chunks    = IF TruthyStr(c.error) THEN @ + 1 ELSE @]

RECURSIVE UpdateAll(_, _, _)
\* for chunk in processed_chunks: progress = self.update_progress(progress, chunk)
UpdateAll(p, cs, i) ==
    IF i > Len(cs) THEN p ELSE UpdateAll(update_progress(p, cs[i]), cs, i + 1)

\* successful_chunks = [c for c in chunks if c.processed and c.audio_data]
SuccessfulChunks(cs) ==
    SelectSeq(cs, LAMBDA c : c.processed /\ TruthyBytes(c.audio_data))

RECURSIVE WriteAll(_, _, _)
\* for chunk in successful_chunks: buffer.write(chunk.audio_data)
WriteAll(cs, i, buffer) ==
    IF i > Len(cs) THEN buffer
    ELSE WriteAll(cs, i + 1,
                  IF TruthyBytes(cs[i].audio_data) THEN buffer \o cs[i].audio_data[1]
                  ELSE buffer)

\* mutated concatenation: one unsuccessful chunk fails the whole list
concatenate_audioAllOrNothing(cs) ==
    LET successful_chunks == SuccessfulChunks(cs)
    IN  IF Len(successful_chunks) < Len(cs) \/ Len(cs) = 0
        THEN <<None, Some("No successful audio chunks to concatenate")>>
        ELSE IF Len(successful_chunks) = 1
        THEN <<successful_chunks[1].audio_data, None>>
        ELSE <<Some(WriteAll(successful_chunks, 1, <<>>)), None>>

\* returns <<audio_data, error_message>>
concatenate_audio(cs) ==
    LET successful_chunks == SuccessfulChunks(cs)
    IN  IF Len(successful_chunks) = 0
        THEN <<None, Some("No successful audio chunks to concatenate")>>
        ELSE IF Len(successful_chunks) = 1
        THEN <<successful_chunks[1].audio_data, None>>
        ELSE <<Some(WriteAll(successful_chunks, 1, <<>>)), None>>

\* mutated blank test: only the empty text is skipped
IsBlankEmptyOnly(text) == text = <<>>

\* if not chunk.text.strip(): the chunk is skipped
IsBlank(text) == Strip(text) = <<>>

----------------------------------------------------------------------------
(* OpenAITTSService.process_chunk *)

\* f"API error: {response.status_code}"
ApiError(status) ==
    CASE status = 400 -> "API error: 400"
      [] status = 429 -> "API error: 429"
      [] status = 500 -> "API error: 500"
      [] status = 503 -> "API error: 503"
      [] OTHER        -> "API error"

\* mutated process_chunk: a failed chunk is marked processed as well
OpenAIOnResultMarksProcessed(ch, c) ==
    LET r == c.result[1]
    IN  IF c.pc = "raised"
        THEN [ch EXCEPT !.error = Some("Error processing chunk: unexpected"),
                        !.processed = TRUE]
        ELSE IF r.kind = "response" THEN
            IF r.status = 200
            THEN [ch EXCEPT !.audio_data = Some(r.content), !.processed = TRUE]
            ELSE [ch EXCEPT !.error = IF r.message # None THEN r.message
                                      ELSE Some(ApiError(r.status)),
                            !.processed = TRUE]
        ELSE [ch EXCEPT !.error = r.message, !.processed = TRUE]

\* mutated process_chunk: the body of an error response is not read
OpenAIOnResultGenericOnly(ch, c) ==
    LET r == c.result[1]
    IN  IF c.pc = "raised"
        THEN [ch EXCEPT !.error = Some("Error processing chunk: unexpected")]
        ELSE IF r.kind = "response" THEN
            IF r.status = 200
            THEN [ch EXCEPT !.audio_data = Some(r.content), !.processed = TRUE]
            ELSE [ch EXCEPT !.error = Some(ApiError(r.status))]
        ELSE [ch EXCEPT !.error = r.message]

\* the chunk after process_chunk handled what http_client.request gave back
\* (c is the finished call: returned a response, returned an exception, or raised)
OpenAIOnResult(ch, c) ==
    LET r == c.result[1]
    IN  IF c.pc = "raised"
        THEN [ch EXCEPT !.error = Some("Error processing chunk: unexpected")]
        ELSE IF r.kind = "response" THEN
            IF r.status = 200
            THEN [ch EXCEPT !.audio_data = Some(r.content), !.processed = TRUE]
            ELSE [ch EXCEPT !.error = IF r.message # None THEN r.message
                                      ELSE Some(ApiError(r.status))]
        ELSE [ch EXCEPT !.error = r.message]

RECURSIVE InOrder(_, _, _)
InOrder(cs, order, i) ==
    IF i > Len(order) THEN <<>> ELSE <<cs[order[i]]>> \o InOrder(cs, order, i + 1)

\* mutated gather: results arrive in completion order
GatherCompletionOrder(cs, order) == InOrder(cs, order, 1)

\* processed_chunks = await asyncio.gather(*tasks): results in the order of tasks
Gather(cs, order) == cs

----------------------------------------------------------------------------
(* LocalTTSService.process_chunk *)

\* chunk.text[:10]
TextPrefixLen == 10

\* b"DUMMY_AUDIO_DATA_"
DummyPrefix == <<68, 85, 77, 77, 89, 95, 65, 85, 68, 73, 79, 95, 68, 65, 84, 65, 95>>

\* str.encode() of the characters of the model
Ord(ch) ==
    CASE ch = "a"  -> 97
      [] ch = "b"  -> 98
      [] ch = "c"  -> 99
      [] ch = " "  -> 32
      [] ch = "."  -> 46
      [] ch = "!"  -> 33
      [] ch = "?"  -> 63
      [] ch = "\n" -> 10

\* dummy_audio = b"DUMMY_AUDIO_DATA_" + chunk.text[:10].encode()
DummyAudio(text) ==
    DummyPrefix \o [i \in 1..Min(TextPrefixLen, Len(text)) |-> Ord(text[i])]

\* how the body of process_chunk after the simulated delay can end:
\*   "ok"         no exception
\*   "fail_early" an exception before chunk.audio_data is assigned (NamedTemporaryFile, encode)
\*   "fail_late"  an exception in the temp file clean-up, after audio_data and processed were assigned
LocalOutcomes == {"ok", "fail_early", "fail_late"}

\* chunk.audio_data = dummy_audio; chunk.processed = True
LocalAssigned(ch) ==
    [ch EXCEPT !.audio_data = Some(DummyAudio(ch.text)), !.processed = TRUE]

\* the chunk process_chunk returns when its body ended with o
LocalOnOutcome(ch, o) ==
    IF o = "fail_early"
    THEN [ch EXCEPT !.error = Some("Error processing chunk with local TTS")]
    ELSE IF o = "ok"
    THEN [ch EXCEPT !.audio_data = Some(DummyAudio(ch.text)), !.processed = TRUE]
    ELSE [ch EXCEPT !.audio_data = Some(DummyAudio(ch.text)), !.processed = TRUE,
                    !.error = Some("Error processing chunk with local TTS")]

----------------------------------------------------------------------------
(* Requests of the model *)

\* config.chunk_size of the conversions
ConvChunkSize == 2

Word(ch) == [i \in 1..ConvChunkSize |-> ch]

\* texts of the conversions: empty, one chunk of whitespace, one chunk, two
\* chunks, three chunks the middle one blank, three chunks
ConvTexts ==
    {<<>>,
     Word(" "),
     Word("a"),
     Word("a") \o Word("b"),
     Word("a") \o Word(" ") \o Word("b"),
     Word("a") \o Word("b") \o Word("c")}

\* TTSConfig.max_retries when the request does not set it
DefaultMaxRetries == 3

\* TTSConfig.timeout, in seconds, when the request does not set it
DefaultTimeout == 30

\* a config.timeout short enough to go by while a conversion is under way;
\* the default one is taken to outlast every conversion of the model
ShortTimeout == 1

\* the requests of the conversions: every text under the default retry and
\* timeout settings, and the text of two chunks also with no retries and
\* with the short timeout
ConvRequests ==
    [text : ConvTexts, provider : {"openai", "local"}, chunk_size : {ConvChunkSize},
     max_retries : {DefaultMaxRetries}, timeout : {DefaultTimeout}]
    \cup
    [text : {Word("a") \o Word("b")}, provider : {"openai", "local"},
     chunk_size : {ConvChunkSize}, max_retries : {0, DefaultMaxRetries},
     timeout : {ShortTimeout, DefaultTimeout}]

NoRequest == [text |-> <<>>, provider |-> "none", chunk_size |-> 0,
              max_retries |-> DefaultMaxRetries, timeout |-> DefaultTimeout]

\* longest text handed to split_text on its own
MaxTextLen == 6

\* largest chunk_size handed to split_text on its own
MaxChunkSize == 5

\* a letter, the blank, a sentence terminator and the line feed
SplitAlphabet == {"a", " ", ".", "\n"}

\* longest text of sentences handed to split_text on its own
MaxSentenceLen == 6

\* the blank and the characters of the three sentence terminators
SentenceAlphabet == {" ", ".", "!", "?"}

SplitTexts == UNION {[1..n -> SplitAlphabet] : n \in 0..MaxTextLen}

SentenceTexts == UNION {[1..n -> SentenceAlphabet] : n \in 0..MaxSentenceLen}

\* number of loop iterations of split_text the model follows; more than any
\* split with a positive chunk_size takes
MaxIterations == MaxTextLen + 1

\* split_text(text, chunk_size) called on its own; chunk_size is an int
\* without lower limit, 0 stands for the values that are not positive; the
\* texts of sentences are split with the two largest chunk sizes
SplitRequests ==
    [text : SplitTexts, provider : {"none"}, chunk_size : 0..MaxChunkSize,
     max_retries : {DefaultMaxRetries}, timeout : {DefaultTimeout}]
    \cup
    [text : SentenceTexts, provider : {"none"},
     chunk_size : (MaxChunkSize - 1)..MaxChunkSize,
     max_retries : {DefaultMaxRetries}, timeout : {DefaultTimeout}]

\* the provider an adapter checks request.config.provider against
ProviderOf(svc) == IF svc = "OpenAITTSService" THEN "openai" ELSE "local"

----------------------------------------------------------------------------
(* State machine *)

Init ==
    /\ caller \in {"OpenAITTSService", "LocalTTSService", "direct", "split_text"}
    /\ variant \in (IF caller = "direct" THEN {"loop", "recursive"} ELSE {"loop"})
    /\ max_retries \in (IF caller = "direct" THEN 0..MaxRetries
                        ELSE IF caller = "OpenAITTSService" THEN 0..ConvMaxRetries
                        ELSE {0})
    /\ aiohttp \in (IF caller = "OpenAITTSService" THEN BOOLEAN ELSE {TRUE})
    /\ request \in (IF caller = "direct" THEN {NoRequest}
                    ELSE IF caller = "split_text" THEN SplitRequests
                    ELSE ConvRequests)
    /\ current_pos = 0
    /\ text_chunks = <<>>
    /\ deadline = None
    /\ phase = "created"
    /\ chunks = <<>>
    /\ progress = None
    /\ task = <<>>
    /\ calls \in (IF caller = "direct"
                  THEN {<<[NewCall EXCEPT !.retry_delay = d]>> : d \in RetryDelays}
                  ELSE {<<>>})
    /\ done_order = <<>>
    /\ backend_log = <<>>
    /\ response = None

TTSErrorResult(msg) ==
    [kind |-> "TTSError", audio_data |-> None, error |-> None, success |-> FALSE,
     progress |-> None, message |-> Some(msg)]

TTSResponseResult(audio, err, ok, prog) ==
    [kind |-> "TTSResponse", audio_data |-> audio, error |-> err, success |-> ok,
     progress |-> Some(prog), message |-> None]

\* split_text is entered: a text that fits one chunk is returned as it is
SplitBegin ==
    /\ caller = "split_text"
    /\ phase = "created"
    /\ IF FitsOneChunk(request.text, request.chunk_size)
       THEN /\ text_chunks' = <<request.text>>
            /\ phase' = "done"
       ELSE /\ text_chunks' = <<>>
            /\ phase' = "splitting"
    /\ current_pos' = 0
    /\ UNCHANGED <<caller, variant, max_retries, aiohttp, request, deadline,
                   chunks, progress, task, calls, done_order, backend_log, response>>

\* one iteration of the while loop of split_text
SplitStep ==
    /\ phase = "splitting"
    /\ current_pos < Len(request.text)
    /\ Len(text_chunks) < MaxIterations
    /\ LET end_pos == EndPos(request.text, current_pos, request.chunk_size)
       IN  /\ text_chunks' = Append(text_chunks,
                                    ChunkText(request.text, current_pos, end_pos))
           /\ current_pos' = end_pos
    /\ UNCHANGED <<caller, variant, max_retries, aiohttp, request, deadline,
                   phase, chunks, progress, task, calls, done_order, backend_log,
                   response>>

\* the while condition fails and split_text returns chunks
SplitReturn ==
    /\ phase = "splitting"
    /\ ~(current_pos < Len(request.text))
    /\ phase' = "done"
    /\ UNCHANGED <<caller, variant, max_retries, aiohttp, request, current_pos,
                   text_chunks, deadline, chunks, progress, task, calls,
                   done_order, backend_log, response>>

\* mutated provider test: every provider is accepted
ProviderMismatchIgnored == FALSE

\* the provider test at the top of convert_text_to_speech
ProviderMismatch == request.provider # ProviderOf(caller)

\* config.timeout seconds have gone by since the conversion began; nothing
\* in convert_text_to_speech or process_chunk reads config.timeout or the
\* clock, so no coroutine is resumed or cancelled by it
DeadlinePasses ==
    /\ caller \in {"OpenAITTSService", "LocalTTSService"}
    /\ request.timeout = ShortTimeout
    /\ phase = "dispatching"
    /\ deadline = None
    /\ deadline' = Some({i \in DOMAIN task : task[i] \in {"awaiting", "cleanup"}})
    /\ UNCHANGED <<caller, variant, max_retries, aiohttp, request, current_pos,
                   text_chunks, phase, chunks, progress, task, calls, done_order,
                   backend_log, response>>

\* convert_text_to_speech up to the dispatch of the chunks
ConvertBegin ==
    /\ caller \in {"OpenAITTSService", "LocalTTSService"}
    /\ phase = "created"
    /\ IF ProviderMismatch
       THEN /\ response' = Some(TTSErrorResult("Invalid provider"))
            /\ phase' = "done"
            /\ UNCHANGED <<chunks, progress, task, calls>>
       ELSE LET cs == MakeChunks(split_text(request.text, request.chunk_size))
            IN  /\ chunks' = cs
                /\ progress' = Some(create_progress_tracker(Len(cs)))
                /\ task' = [i \in 1..Len(cs) |-> "pending"]
                /\ calls' = [i \in 1..Len(cs) |-> NewCall]
                /\ phase' = "dispatching"
                /\ UNCHANGED response
    /\ UNCHANGED <<caller, variant, max_retries, aiohttp, request, current_pos,
                   text_chunks, deadline, done_order, backend_log>>

\* first step of the task of chunk i (OpenAITTSService.process_chunk up to
\* its first suspension); tasks are started in the order gather received them
StartChunk(i) ==
    /\ caller = "OpenAITTSService"
    /\ phase = "dispatching"
    /\ ~LoopBlocked
    /\ task[i] = "pending"
    /\ \A j \in 1..(i - 1) : task[j] # "pending"
    /\ IF ~aiohttp
       THEN /\ chunks' = [chunks EXCEPT ![i].error =
                              Some("aiohttp library is required for OpenAI TTS service")]
            /\ task' = [task EXCEPT ![i] = "done"]
            /\ done_order' = Append(done_order, i)
            /\ UNCHANGED calls
       ELSE IF IsBlank(chunks[i].text)
       THEN /\ chunks' = [chunks EXCEPT ![i].processed = TRUE]
            /\ task' = [task EXCEPT ![i] = "done"]
            /\ done_order' = Append(done_order, i)
            /\ UNCHANGED calls
       ELSE /\ calls' = [calls EXCEPT ![i] = EnterRequest(@)]
            /\ task' = [task EXCEPT ![i] = "awaiting"]
            /\ UNCHANGED <<chunks, done_order>>
    /\ UNCHANGED <<caller, variant, max_retries, aiohttp, request, current_pos,
                   text_chunks, deadline, phase, progress,
                   backend_log, response>>

\* the direct caller awaits http_client.request(...)
DirectRequest ==
    /\ caller = "direct"
    /\ phase = "created"
    /\ calls' = [calls EXCEPT ![1] = EnterRequest(@)]
    /\ phase' = "awaiting"
    /\ UNCHANGED <<caller, variant, max_retries, aiohttp, request, current_pos,
                   text_chunks, deadline, chunks, progress,
                   task, done_order, backend_log, response>>

\* the attempt of call i finishes with outcome o and the coroutine of the call
\* is resumed: request handles the outcome and, when it returns or raises, the
\* caller handles the result
\* (the tasks gather created take their first step before the event loop
\* polls for I/O, so no outcome is delivered while a task is still pending)
Receive(i, o) ==
    /\ phase \in {"dispatching", "awaiting"}
    /\ calls[i].pc = "inflight"
    /\ ~LoopBlocked
    /\ \A j \in DOMAIN task : task[j] # "pending"
    /\ LET c == OnOutcome(calls[i], o)
           finished == c.pc \in {"returned", "raised"}
       IN  /\ calls' = [calls EXCEPT ![i] = c]
           /\ IF caller = "direct"
              THEN /\ backend_log' = Append(backend_log, LogCode(o))
                   /\ phase' = IF finished THEN "done" ELSE phase
                   /\ UNCHANGED <<chunks, task, done_order>>
              ELSE /\ IF finished
                      THEN /\ chunks' = [chunks EXCEPT ![i] = OpenAIOnResult(@, c)]
                           /\ task' = [task EXCEPT ![i] = "done"]
                           /\ done_order' = Append(done_order, i)
                      ELSE UNCHANGED <<chunks, task, done_order>>
                   /\ UNCHANGED <<backend_log, phase>>
    /\ UNCHANGED <<caller, variant, max_retries, aiohttp, request, current_pos,
                   text_chunks, deadline, progress, response>>

\* time.sleep(delay) of call i returns and the loop issues the next attempt
WakeUp(i) ==
    /\ calls[i].pc = "backoff"
    /\ calls' = [calls EXCEPT ![i] = EnterRequest(@)]
    /\ UNCHANGED <<caller, variant, max_retries, aiohttp, request, current_pos,
                   text_chunks, deadline, phase, chunks,
                   progress, task, done_order, backend_log, response>>

\* mutated join: the wait ends as soon as one chunk carries an error
JoinReadyFirstError ==
    \/ \A j \in DOMAIN task : task[j] = "done"
    \/ \E j \in DOMAIN task : chunks[j].error # None

\* await asyncio.gather(*tasks) resumes when every task is done
JoinReady == \A j \in DOMAIN task : task[j] = "done"

\* gather returns once every task is done; progress is updated for every chunk
Join ==
    /\ caller = "OpenAITTSService"
    /\ phase = "dispatching"
    /\ ~LoopBlocked
    /\ JoinReady
    /\ progress' = Some(UpdateAll(progress[1], Gather(chunks, done_order), 1))
    /\ phase' = "reassembling"
    /\ UNCHANGED <<caller, variant, max_retries, aiohttp, request, current_pos,
                   text_chunks, deadline, chunks, task,
                   calls, done_order, backend_log, response>>

\* mutated loop: it is left after its first pass
AfterLocalChunkLeavesLoop(i) == "reassembling"

\* the phase after chunk i of the sequential loop is done
AfterLocalChunk(i) == IF i = Len(chunks) THEN "reassembling" ELSE "dispatching"

\* mutated loop: a chunk is handed over once its predecessors were started
LocalTurnEager(i) == \A j \in 1..(i - 1) : task[j] # "pending"

\* for chunk in chunks: processed_chunk = await self.process_chunk(...):
\* chunk i is reached when process_chunk has returned for every earlier chunk
LocalTurn(i) == \A j \in 1..(i - 1) : task[j] = "done"

\* LocalTTSService: the loop hands chunk i to process_chunk, which either
\* skips a blank chunk or suspends in asyncio.sleep
LocalStartChunk(i) ==
    /\ caller = "LocalTTSService"
    /\ phase = "dispatching"
    /\ task[i] = "pending"
    /\ LocalTurn(i)
    /\ IF IsBlank(chunks[i].text)
       THEN LET ch == [chunks[i] EXCEPT !.processed = TRUE]
            IN  /\ chunks' = [chunks EXCEPT ![i] = ch]
                /\ task' = [task EXCEPT ![i] = "done"]
                /\ done_order' = Append(done_order, i)
                /\ progress' = Some(update_progress(progress[1], ch))
                /\ phase' = AfterLocalChunk(i)
       ELSE /\ task' = [task EXCEPT ![i] = "awaiting"]
            /\ UNCHANGED <<chunks, done_order, progress, phase>>
    /\ UNCHANGED <<caller, variant, max_retries, aiohttp, request, current_pos,
                   text_chunks, deadline, calls,
                   backend_log, response>>

\* LocalTTSService: process_chunk of chunk i resumes after the delay; it
\* either runs to its return, and the loop updates the progress, or (outcome
\* "fail_late") has assigned audio_data and processed and is about to fail
\* in the clean-up of the temporary file
LocalFinishChunk(i, o) ==
    /\ caller = "LocalTTSService"
    /\ phase = "dispatching"
    /\ task[i] = "awaiting"
    /\ IF o = "fail_late"
       THEN /\ chunks' = [chunks EXCEPT ![i] = LocalAssigned(@)]
            /\ task' = [task EXCEPT ![i] = "cleanup"]
            /\ UNCHANGED <<progress, done_order, phase>>
       ELSE /\ LET ch == LocalOnOutcome(chunks[i], o)
               IN  /\ chunks' = [chunks EXCEPT ![i] = ch]
                   /\ progress' = Some(update_progress(progress[1], ch))
            /\ task' = [task EXCEPT ![i] = "done"]
            /\ done_order' = Append(done_order, i)
            /\ phase' = AfterLocalChunk(i)
    /\ UNCHANGED <<caller, variant, max_retries, aiohttp, request, current_pos,
                   text_chunks, deadline, calls,
                   backend_log, response>>

\* LocalTTSService: the clean-up of the temporary file raises, the except
\* clause records the error on the chunk and returns it; the loop updates
\* the progress
LocalCleanupFails(i) ==
    /\ caller = "LocalTTSService"
    /\ phase = "dispatching"
    /\ task[i] = "cleanup"
    /\ LET ch == LocalOnOutcome(chunks[i], "fail_late")
       IN  /\ chunks' = [chunks EXCEPT ![i] = ch]
           /\ progress' = Some(update_progress(progress[1], ch))
    /\ task' = [task EXCEPT ![i] = "done"]
    /\ done_order' = Append(done_order, i)
    /\ phase' = AfterLocalChunk(i)
    /\ UNCHANGED <<caller, variant, max_retries, aiohttp, request, current_pos,
                   text_chunks, deadline, calls,
                   backend_log, response>>

\* the list handed to concatenate_audio
ProcessedChunks ==
    IF caller = "OpenAITTSService" THEN Gather(chunks, done_order) ELSE chunks

\* mutated response: success is reported also with an error
BuildResponseAlwaysSuccess(r, prog) ==
    IF TruthyStr(r[2])
    THEN TTSResponseResult(None, r[2], TRUE, prog)
    ELSE TTSResponseResult(r[1], None, TRUE, prog)

\* if error: return TTSResponse(audio_data=None, error=error, success=False)
\* else: return TTSResponse(audio_data=audio_data, success=True)
BuildResponse(r, prog) ==
    IF TruthyStr(r[2])
    THEN TTSResponseResult(None, r[2], FALSE, prog)
    ELSE TTSResponseResult(r[1], None, TRUE, prog)

\* concatenate_audio and the construction of the TTSResponse
Reassemble ==
    /\ phase = "reassembling"
    /\ response' = Some(BuildResponse(concatenate_audio(ProcessedChunks), progress[1]))
    /\ phase' = "done"
    /\ UNCHANGED <<caller, variant, max_retries, aiohttp, request, current_pos,
                   text_chunks, deadline, chunks, progress,
                   task, calls, done_order, backend_log>>

Next ==
    \/ SplitBegin
    \/ SplitStep
    \/ SplitReturn
    \/ DeadlinePasses
    \/ ConvertBegin
    \/ \E i \in DOMAIN task : StartChunk(i)
    \/ DirectRequest
    \/ \E i \in DOMAIN calls : \E o \in OutcomesOf(caller) : Receive(i, o)
    \/ \E i \in DOMAIN calls : WakeUp(i)
    \/ Join
    \/ \E i \in DOMAIN task : LocalStartChunk(i)
    \/ \E i \in DOMAIN task : \E o \in LocalOutcomes : LocalFinishChunk(i, o)
    \/ \E i \in DOMAIN task : LocalCleanupFails(i)
    \/ Reassemble

Spec == Init /\ [][Next]_vars

----------------------------------------------------------------------------
(* Vocabulary of the properties *)

\* a conversion that passed the provider check has returned its TTSResponse
ConversionReturned ==
    /\ caller # "direct"
    /\ phase = "done"
    /\ response # None
    /\ response[1].kind = "TTSResponse"

\* the direct call has returned or raised
DirectCallOver == caller = "direct" /\ phase = "done"

\* the chunk was synthesised: processed, no error, audio bytes present
ChunkSucceeded(c) == c.processed /\ c.error = None /\ TruthyBytes(c.audio_data)

\* the adapter recorded an error on the chunk
ChunkFailed(c) == c.error # None

\* processed flag set or error recorded
ChunkTerminal(c) == c.processed \/ c.error # None

\* the chunk whose id is k
ChunkWithId(k) == chunks[CHOOSE i \in DOMAIN chunks : chunks[i].id = k]

HasAudio(c) == c.processed /\ TruthyBytes(c.audio_data)

HasAudioNoError(c) == HasAudio(c) /\ c.error = None

RECURSIVE AudioFromId(_, _)
\* bytes of the chunks with id >= k that have audio (and, when no_error is
\* set, no error), by increasing id
AudioFromId(k, no_error) ==
    IF k >= Len(chunks) THEN <<>>
    ELSE LET c == ChunkWithId(k)
             keep == IF no_error THEN HasAudioNoError(c) ELSE HasAudio(c)
         IN  (IF keep THEN c.audio_data[1] ELSE <<>>) \o AudioFromId(k + 1, no_error)

\* None when there are no bytes, else the bytes
AsPayload(bytes) == IF bytes = <<>> THEN None ELSE Some(bytes)

----------------------------------------------------------------------------
(* C1 *)

ThreeChunksMiddleFailed(failed(_)) ==
    /\ caller = "OpenAITTSService"
    /\ ConversionReturned
    /\ Len(chunks) = 3
    /\ ChunkSucceeded(chunks[1])
    /\ failed(chunks[2])
    /\ ChunkSucceeded(chunks[3])

FailedWithMessage(c) == TruthyStr(c.error)

----------------------------------------------------------------------------
(* C2 *)

\* C2: when every chunk of a conversion failed in the adapter, the response
\* has success false, the top-level error of no successful chunks, and no audio
C2_AllChunksFailed ==
    (ConversionReturned /\ \A i \in DOMAIN chunks : ChunkFailed(chunks[i])) =>
        /\ ~response[1].success
        /\ response[1].error = Some("No successful audio chunks to concatenate")
        /\ response[1].audio_data = None

----------------------------------------------------------------------------
(* C3 *)

\* C3: a logical call of HttpClient.request never issues more than
\* max_retries + 1 HTTP attempts, in either definition of the client
C3_AttemptsBounded ==
    \A i \in DOMAIN calls : calls[i].attempts <= max_retries + 1

C3_Witness ==
    \E i \in DOMAIN calls :
        /\ calls[i].pc = "returned"
        /\ max_retries >= 2
        /\ calls[i].attempts = max_retries + 1
        /\ \E k, l \in DOMAIN backend_log : backend_log[k] = 0 /\ backend_log[l] >= 500

----------------------------------------------------------------------------
(* C4 *)

\* C4: while one call sleeps in its retry backoff, a sibling call whose
\* attempt is on the wire can still be resumed with its outcome
C4_BackoffBlocksOnlyItsCall ==
    \A i, j \in DOMAIN calls :
        (i # j /\ calls[i].pc = "backoff" /\ calls[j].pc = "inflight") =>
            ENABLED (\E o \in Outcomes : Receive(j, o))

----------------------------------------------------------------------------
(* C5 *)

Backend503Then200 ==
    /\ DirectCallOver
    /\ max_retries = 3
    /\ backend_log = <<503, 503, 503, 200>>

\* C5 as stated: max_retries 3, the backend answers 503 three times and then
\* 200: the 200 response is returned and the count it carries is 4
C5_CarriesAttemptCount ==
    Backend503Then200 =>
        /\ calls[1].pc = "returned"
        /\ calls[1].result[1].kind = "response"
        /\ calls[1].result[1].status = 200
        /\ calls[1].result[1].retry_count = Some(4)

\* C5 amended: max_retries 3, the backend answers 503 three times and then
\* 200: the 200 response is returned after 4 attempts; the count it carries
\* is the number of retries, 3, in the recursive definition, and the loop
\* definition attaches no count
C5_CarriesRetryCount ==
    Backend503Then200 =>
        /\ calls[1].pc = "returned"
        /\ calls[1].result[1].kind = "response"
        /\ calls[1].result[1].status = 200
        /\ calls[1].attempts = 4
        /\ calls[1].result[1].retry_count =
               (IF variant = "recursive" THEN Some(3) ELSE None)

C5_Witness == Backend503Then200 /\ variant = "recursive"

----------------------------------------------------------------------------
(* C6 *)

\* C6: max_retries 2 and every attempt answered 500: exactly 3 attempts,
\* and what is returned is an error, not a plain response
C6_ExhaustedStatusIsError ==
    (DirectCallOver /\ max_retries = 2 /\ backend_log = <<500, 500, 500>>) =>
        /\ calls[1].attempts = 3
        /\ calls[1].result[1].kind # "response"

----------------------------------------------------------------------------
(* C7 *)

\* C7: whatever the order in which the chunk conversions completed, the
\* final audio is the audio of the chunks that have audio, by increasing id
C7_OrdinalReassembly ==
    ConversionReturned =>
        response[1].audio_data = AsPayload(AudioFromId(0, FALSE))

C7_Witness ==
    /\ ConversionReturned
    /\ \E k, l \in DOMAIN done_order :
          /\ k < l
          /\ done_order[k] > done_order[l]
          /\ HasAudio(chunks[done_order[k]])
          /\ HasAudio(chunks[done_order[l]])
          /\ chunks[done_order[k]].audio_data # chunks[done_order[l]].audio_data

----------------------------------------------------------------------------
(* C8 *)

\* C8: a conversion that passed the provider check ends with a TTSResponse,
\* never a TTSError, and with every chunk handed to the adapter and
\* terminal, whichever chunks failed
C8_FailureDoesNotAbortSiblings ==
    (caller # "direct" /\ phase = "done" /\ request.provider = ProviderOf(caller)) =>
        /\ response[1].kind = "TTSResponse"
        /\ \A i \in DOMAIN chunks : task[i] = "done" /\ ChunkTerminal(chunks[i])

C8_Witness ==
    /\ ConversionReturned
    /\ caller = "OpenAITTSService"
    /\ Len(chunks) = 3
    /\ ChunkFailed(chunks[1])
    /\ ChunkSucceeded(chunks[2])
    /\ ChunkSucceeded(chunks[3])
    /\ done_order[1] = 1

----------------------------------------------------------------------------
(* C9 *)

\* C9: the final audio holds bytes of chunks without an error only
C9_ErroredChunkContributesNothing ==
    ConversionReturned =>
        response[1].audio_data = AsPayload(AudioFromId(0, TRUE))

----------------------------------------------------------------------------
(* C10 *)

\* C10: processed count plus failed count never exceeds the total count
C10_CountsWithinTotal ==
    progress # None =>
        progress[1].processed_chunks + progress[1].failed_chunks
            <= progress[1].total_chunks

----------------------------------------------------------------------------
(* C11 *)

\* a conversion by one of the two adapters
IsConversion == caller \in {"OpenAITTSService", "LocalTTSService"}

\* C11: when the provider of the request is not the adapter's, convert
\* returns the TTSError 'Invalid provider' at once: no chunk is made of the
\* text, no process_chunk is started and no HTTP call is made
C11_InvalidProviderBeforeIO ==
    (IsConversion /\ request.provider # ProviderOf(caller) /\ phase # "created") =>
        /\ phase = "done"
        /\ response = Some(TTSErrorResult("Invalid provider"))
        /\ chunks = <<>>
        /\ task = <<>>
        /\ calls = <<>>

C11_Witness ==
    /\ caller = "OpenAITTSService"
    /\ request.provider = "local"
    /\ Len(request.text) > request.chunk_size
    /\ phase = "done"
    /\ response # None

----------------------------------------------------------------------------
(* C12 *)

\* C12: a request with empty text is rejected before segmentation: convert
\* ends with an error result, no chunk is made and no adapter call or HTTP
\* call happens
C12_EmptyTextRejected ==
    (IsConversion /\ request.provider = ProviderOf(caller)
                  /\ request.text = <<>> /\ phase # "created") =>
        /\ phase = "done"
        /\ response # None
        /\ response[1].kind = "TTSError"
        /\ chunks = <<>>
        /\ task = <<>>

----------------------------------------------------------------------------
(* C13 *)

\* split_text, called on its own, has returned text_chunks
SplitReturned == caller = "split_text" /\ phase = "done"

\* C13: for a positive chunk_size no chunk split_text produces is longer
\* than chunk_size; a stretch without any break point is no exception, the
\* loop cuts it at chunk_size characters
C13_ChunkWithinSize ==
    /\ caller = "split_text" =>
           \A i \in DOMAIN text_chunks : Len(text_chunks[i]) <= request.chunk_size
    /\ IsConversion =>
           \A i \in DOMAIN chunks : Len(chunks[i].text) <= request.chunk_size

C13_Witness ==
    /\ SplitReturned
    /\ Len(request.text) > request.chunk_size
    /\ \E i \in DOMAIN text_chunks : Len(text_chunks[i]) = request.chunk_size
    /\ \E j \in 1..(Len(text_chunks) - 1) :
           0 < Len(text_chunks[j]) /\ Len(text_chunks[j]) < request.chunk_size

----------------------------------------------------------------------------
(* C14 *)

RECURSIVE Concat(_)
\* ''.join(chunks)
Concat(ss) == IF ss = <<>> THEN <<>> ELSE Head(ss) \o Concat(Tail(ss))

\* the text with every whitespace character removed
NonWhitespace(s) == SelectSeq(s, LAMBDA ch : ch \notin Whitespace)

\* C14: the chunks of split_text joined in order are the input text, once
\* all whitespace is removed from both
C14_ChunksCoverText ==
    SplitReturned => NonWhitespace(Concat(text_chunks)) = NonWhitespace(request.text)

C14_Witness ==
    /\ SplitReturned
    /\ Len(text_chunks) >= 3
    /\ Concat(text_chunks) # request.text
    /\ Len(NonWhitespace(request.text)) >= 3

----------------------------------------------------------------------------
(* C15 *)

\* C15: a text no longer than chunk_size comes back as exactly one chunk,
\* the text itself with its whitespace untouched
C15_ShortTextUnchanged ==
    (SplitReturned /\ Len(request.text) <= request.chunk_size) =>
        text_chunks = <<request.text>>

C15_Witness ==
    /\ SplitReturned
    /\ Len(request.text) = request.chunk_size
    /\ Len(request.text) > 0
    /\ request.text[1] \in Whitespace
    /\ request.text[Len(request.text)] \in Whitespace
    /\ text_chunks = <<request.text>>

----------------------------------------------------------------------------
(* C16 *)

\* C16: once the timeout of the request has gone by during a conversion,
\* every chunk that was in flight at that moment carries the Timeout error
\* and has no part in the final audio, and the conversion still succeeds
\* when another chunk succeeded
C16_DeadlineMarksInFlight ==
    (IsConversion /\ deadline # None) =>
        /\ \A i \in deadline[1] :
               chunks[i].error = Some("Timeout") /\ ~HasAudio(chunks[i])
        /\ (ConversionReturned /\ \E i \in DOMAIN chunks : ChunkSucceeded(chunks[i]))
               => response[1].success

----------------------------------------------------------------------------
(* C17 *)

\* C17: when at least one chunk ended processed with non-empty audio, the
\* response has success true, an audio payload and no top-level error,
\* however many other chunks failed
C17_OneChunkIsEnough ==
    (ConversionReturned /\ \E i \in DOMAIN chunks : HasAudio(chunks[i])) =>
        /\ response[1].success
        /\ response[1].audio_data # None
        /\ response[1].error = None

C17_Witness ==
    /\ ConversionReturned
    /\ Len(chunks) = 3
    /\ HasAudio(chunks[2])
    /\ ChunkFailed(chunks[1]) /\ ~HasAudio(chunks[1])
    /\ ChunkFailed(chunks[3]) /\ ~HasAudio(chunks[3])

----------------------------------------------------------------------------
(* C18 *)

\* the HTTP call of chunk i gave the adapter a response whose status is not 200
NonOkResponse(i) ==
    /\ calls[i].pc = "returned"
    /\ calls[i].result[1].kind = "response"
    /\ calls[i].result[1].status # 200

\* C18: when the HTTP call of a chunk of the remote adapter ends with a
\* response that is not 200, the error of the chunk is the message of the
\* structured error body when there is one and else the generic message
\* with the status code; the chunk has no audio and is not processed
C18_NonOkResponseSetsError ==
    caller = "OpenAITTSService" =>
        \A i \in DOMAIN calls : NonOkResponse(i) =>
            /\ chunks[i].error =
                   (IF calls[i].result[1].message # None
                    THEN calls[i].result[1].message
                    ELSE Some(ApiError(calls[i].result[1].status)))
            /\ chunks[i].audio_data = None
            /\ ~chunks[i].processed

C18_Witness ==
    /\ caller = "OpenAITTSService"
    /\ ConversionReturned
    /\ \E i, j \in DOMAIN calls :
          /\ NonOkResponse(i) /\ NonOkResponse(j)
          /\ calls[i].result[1].status = 400
          /\ chunks[i].error = Some("Invalid request")
          /\ calls[j].attempts > 1
          /\ chunks[j].error = Some("API error: 503")

----------------------------------------------------------------------------
(* C19 *)

\* process_chunk has returned for chunk i, whose text is empty or whitespace only
BlankChunkDone(i) == task[i] = "done" /\ Strip(chunks[i].text) = <<>>

\* the chunk is as it was created but for the processed flag
NoOpSuccess(c) == c.processed /\ c.audio_data = None /\ c.error = None

\* C19 as stated: in both adapters a chunk whose text is empty or whitespace
\* only ends processed, without audio and without error, and no HTTP request
\* and no synthesis delay happens for it
C19_BlankChunkIsNoOp ==
    IsConversion =>
        \A i \in DOMAIN chunks :
            /\ Strip(chunks[i].text) = <<>> =>
                   task[i] # "awaiting" /\ calls[i].attempts = 0
            /\ BlankChunkDone(i) => NoOpSuccess(chunks[i])

\* C19 amended: the same, in the remote adapter only when the aiohttp
\* library could be imported; when it could not, the blank chunk gets the
\* error of the missing library, is not processed, and still no HTTP request
\* is made for it
C19_BlankChunkIsNoOpGivenAiohttp ==
    IsConversion =>
        \A i \in DOMAIN chunks :
            /\ Strip(chunks[i].text) = <<>> =>
                   task[i] # "awaiting" /\ calls[i].attempts = 0
            /\ (BlankChunkDone(i) /\ aiohttp) => NoOpSuccess(chunks[i])
            /\ (BlankChunkDone(i) /\ ~aiohttp) =>
                   /\ chunks[i].error =
                          Some("aiohttp library is required for OpenAI TTS service")
                   /\ ~chunks[i].processed
                   /\ chunks[i].audio_data = None

C19_Witness ==
    /\ ConversionReturned
    /\ aiohttp
    /\ \E i \in DOMAIN chunks :
          /\ BlankChunkDone(i)
          /\ chunks[i].text # <<>>
          /\ NoOpSuccess(chunks[i])

----------------------------------------------------------------------------
(* C20 *)

\* C20: the remote adapter never makes more HTTP attempts for one chunk than
\* the max_retries of the request's config plus one
C20_RequestRetryPolicyApplied ==
    caller = "OpenAITTSService" =>
        \A i \in DOMAIN calls : calls[i].attempts <= request.max_retries + 1

----------------------------------------------------------------------------
(* C21 *)

\* the step is one iteration of the while loop of split_text
SplitIteration ==
    /\ caller = "split_text"
    /\ phase = "splitting"
    /\ text_chunks' # text_chunks

\* positions from first on where the delimiter starts and lies inside the
\* window that ends before position last
StartsIn(text, delimiter, first, last) ==
    {i \in first..(last - Len(delimiter)) :
        \A k \in 1..Len(delimiter) : text[i + k] = delimiter[k]}

\* the break point by strict priority, for a window of chunk_size characters
\* from pos, when text remains beyond the window; delimiters that start
\* before position first are not taken
PriorityBreak(text, pos, chunk_size, first) ==
    LET last        == pos + chunk_size
        terminators == StartsIn(text, <<".", " ">>, first, last)
                       \cup StartsIn(text, <<"!", " ">>, first, last)
                       \cup StartsIn(text, <<"?", " ">>, first, last)
        paragraphs  == StartsIn(text, <<"\n", "\n">>, first, last)
        lines       == StartsIn(text, <<"\n">>, first, last)
        spaces      == StartsIn(text, <<" ">>, first, last)
    IN  IF terminators # {} THEN MaxOf(terminators) + 2
        ELSE IF paragraphs # {} THEN MaxOf(paragraphs) + 2
        ELSE IF lines # {} THEN MaxOf(lines) + 1
        ELSE IF spaces # {} THEN MaxOf(spaces) + 1
        ELSE last

\* text remains beyond the window that starts at current_pos
TextBeyondWindow == Len(request.text) - current_pos > request.chunk_size

\* C21 as stated: when more text remains than chunk_size, the iteration
\* ends the chunk after the last sentence terminator of the window if there
\* is one, else after the last paragraph break, else after the last line
\* break, else after the last space, else at exactly chunk_size characters
C21_BreakByPriority ==
    [][(SplitIteration /\ TextBeyondWindow) =>
           current_pos' = PriorityBreak(request.text, current_pos,
                                        request.chunk_size, current_pos)]_vars

\* C21 amended: the same priority, over the delimiters that start after the
\* first character of the window; a delimiter at the first position of the
\* window is not a break point
C21_BreakByPriorityPastStart ==
    [][(SplitIteration /\ TextBeyondWindow) =>
           current_pos' = PriorityBreak(request.text, current_pos,
                                        request.chunk_size, current_pos + 1)]_vars

\* a returned split whose first window held a sentence terminator and, after
\* it, a paragraph break, a line break and a space, and was cut at the
\* terminator
C21_Witness ==
    /\ SplitReturned
    /\ request.chunk_size = 5
    /\ request.text = <<"a", ".", " ", "\n", "\n", "a">>
    /\ text_chunks = <<<<"a", ".">>, <<"a">>>>

----------------------------------------------------------------------------
(* C22 *)

\* process_chunk was called for chunk i and has not returned
InFlight(i) == task[i] \in {"awaiting", "cleanup"}

\* C22: in the local adapter at most one chunk is in flight at any time, and
\* a chunk is handed to process_chunk only when process_chunk has returned
\* for every chunk before it, each of them terminal
C22_LocalOneAtATime ==
    caller = "LocalTTSService" =>
        /\ \A i, j \in DOMAIN task : (InFlight(i) /\ InFlight(j)) => i = j
        /\ \A i \in DOMAIN task : task[i] # "pending" =>
               \A j \in 1..(i - 1) : task[j] = "done" /\ ChunkTerminal(chunks[j])

C22_Witness ==
    /\ caller = "LocalTTSService"
    /\ Len(chunks) = 3
    /\ task = <<"done", "awaiting", "pending">>
    /\ ChunkFailed(chunks[1])

----------------------------------------------------------------------------
(* C23 *)

----------------------------------------------------------------------------
(* C24 *)

\* the waits of the call are retry_delay, 2 retry_delay, 4 retry_delay, ...
ExponentialDelays(c) ==
    \A k \in DOMAIN c.delays : c.delays[k] = c.retry_delay * 2 ^ (k - 1)

\* C24 as stated: every retry was preceded by a wait, and the wait after the
\* k-th failed attempt is retry_delay * 2^(k-1), after a retryable status
\* and after a network failure alike
C24_WaitsBeforeEveryRetry ==
    \A i \in DOMAIN calls :
        /\ calls[i].attempts >= 1 => Len(calls[i].delays) >= calls[i].attempts - 1
        /\ ExponentialDelays(calls[i])

\* C24 amended: in the loop definition of the client every retry was
\* preceded by a wait, and the wait after the k-th failed attempt is
\* retry_delay * 2^(k-1); the recursive definition never waits
C24_LoopWaitsRecursiveDoesNot ==
    \A i \in DOMAIN calls :
        IF variant = "loop"
        THEN /\ calls[i].attempts >= 1 =>
                    Len(calls[i].delays) >= calls[i].attempts - 1
             /\ ExponentialDelays(calls[i])
        ELSE calls[i].delays = <<>>

C24_Witness ==
    /\ DirectCallOver
    /\ variant = "loop"
    /\ calls[1].delays = <<3, 6, 12>>
    /\ backend_log[1] = 0
    /\ backend_log[2] = 503
    /\ backend_log[3] = 0

----------------------------------------------------------------------------
(* C25 *)

\* the k-th attempt of the direct call was answered with a status outside
\* the default retry codes
AnsweredNoRetryStatus(k) ==
    /\ k \in DOMAIN backend_log
    /\ backend_log[k] > 0
    /\ backend_log[k] \notin {429, 500, 502, 503, 504}

\* the direct call returned the response of its k-th attempt, the last one,
\* and did not wait after it
ReturnedAfterAttempt(k) ==
    /\ k = Len(backend_log)
    /\ calls[1].attempts = k
    /\ calls[1].pc = "returned"
    /\ calls[1].result[1].kind = "response"
    /\ calls[1].result[1].status = backend_log[k]
    /\ Len(calls[1].delays) < k

\* C25 as stated: a response whose status is not a retry code is returned
\* after the attempt that produced it, without wait and without further
\* attempt, whatever number of retries remains
C25_NoRetryStatusReturnedAtOnce ==
    caller = "direct" =>
        \A k \in DOMAIN backend_log : AnsweredNoRetryStatus(k) => ReturnedAfterAttempt(k)

\* C25 amended: so it is in the loop definition of the client; in the
\* recursive definition so it is for every status below 500, while a status
\* of 500 or more, retry code or not, is retried at once as long as
\* retries remain and returned when none remains
C25_NoRetryStatusByDefinition ==
    caller = "direct" =>
        \A k \in DOMAIN backend_log : AnsweredNoRetryStatus(k) =>
            IF variant = "loop" \/ backend_log[k] < 500 \/ k > max_retries
            THEN ReturnedAfterAttempt(k)
            ELSE calls[1].attempts > k /\ calls[1].delays = <<>>

C25_Witness ==
    /\ DirectCallOver
    /\ max_retries = 3
    /\ backend_log = <<503, 400>>
    /\ ReturnedAfterAttempt(2)

----------------------------------------------------------------------------
(* C26 *)

\* the call has ended and handed the caller a network failure as a value
ReturnedNetworkFailure(c) ==
    /\ c.pc = "returned"
    /\ c.result[1].kind = "RequestError"

\* C26: a direct call whose attempts all ended in a network failure made
\* exactly max_retries + 1 attempts and returned the last failure as a
\* value, it did not raise; and a chunk of the remote adapter whose call
\* returned a network failure carries the text of that failure as its error,
\* without audio and not processed, after max_retries + 1 attempts
C26_NetworkFailureReturned ==
    /\ (DirectCallOver /\ \A k \in DOMAIN backend_log : backend_log[k] = 0) =>
           /\ calls[1].attempts = max_retries + 1
           /\ Len(backend_log) = max_retries + 1
           /\ ReturnedNetworkFailure(calls[1])
    /\ caller = "OpenAITTSService" =>
           \A i \in DOMAIN calls : ReturnedNetworkFailure(calls[i]) =>
               /\ calls[i].attempts = max_retries + 1
               /\ chunks[i].error = calls[i].result[1].message
               /\ chunks[i].audio_data = None
               /\ ~chunks[i].processed

C26_Witness ==
    /\ caller = "OpenAITTSService"
    /\ ConversionReturned
    /\ max_retries = 1
    /\ \E i \in DOMAIN calls :
          /\ ReturnedNetworkFailure(calls[i])
          /\ calls[i].delays # <<>>
          /\ chunks[i].error = Some("connect failed")

----------------------------------------------------------------------------
(* C27 *)

\* C27: in no step of a conversion does a chunk that already has audio get
\* other audio, and in no step does a chunk that is already processed or
\* errored change any of its fields
C27_ChunkMutatedOnce ==
    [][\A i \in DOMAIN chunks :
          /\ chunks[i].audio_data # None =>
                 chunks'[i].audio_data = chunks[i].audio_data
          /\ ChunkTerminal(chunks[i]) => chunks'[i] = chunks[i]]_vars

----------------------------------------------------------------------------
(* C28 *)

\* number of chunks of the conversion that satisfy the test
CountChunks(test(_)) == Cardinality({i \in DOMAIN chunks : test(chunks[i])})

IsProcessed(c) == c.processed

HasError(c) == c.error # None

\* C28: in the progress a conversion returns, the processed count is the
\* number of chunks with the processed flag and the failed count is the
\* number of chunks with a non-null error, whatever the order of completion
C28_ProgressCountsEveryChunk ==
    ConversionReturned =>
        /\ response[1].progress[1].processed_chunks = CountChunks(IsProcessed)
        /\ response[1].progress[1].failed_chunks = CountChunks(HasError)

----------------------------------------------------------------------------
(* C29 *)

\* C29: every iteration of the loop of split_text moves current_pos forward,
\* and the loop never makes more iterations than the text has characters,
\* for every chunk_size
C29_EveryIterationAdvances ==
    [][SplitIteration =>
           /\ current_pos' > current_pos
           /\ Len(text_chunks') <= Len(request.text)]_vars

----------------------------------------------------------------------------
(* C30 *)

\* C30: in every TTSResponse a conversion returns, success is true exactly
\* when there is an audio payload, and exactly when there is no top-level
\* error
C30_OutcomeFieldsAgree ==
    ConversionReturned =>
        /\ response[1].success <=> response[1].audio_data # None
        /\ response[1].success <=> response[1].error = None

C30_Witness ==
    /\ ConversionReturned
    /\ ~response[1].success
    /\ response[1].error # None
    /\ \E i \in DOMAIN chunks :
          chunks[i].processed /\ chunks[i].audio_data = Some(<<>>)

====
